---- MODULE Spec2Model ----
(***************************************************************************)
(* Model of prime_prompt_app.py: a Streamlit page that loads a table of    *)
(* (day, int_col, multiplier) rows from 'multipliers.csv' through a cache, *)
(* looks up the multiplier of a chosen day and compares holding a token    *)
(* with locking it.                                                        *)
(*                                                                         *)
(* Numbers.  Python floats are modelled as exact rationals <<n, d>> with   *)
(* d > 0 in lowest terms, plus NaN == <<0, 0>> (the value pandas gives a   *)
(* missing field).  Rounding, infinities and overflow of IEEE doubles are  *)
(* not modelled.                                                           *)
(*                                                                         *)
(* Source file.  The content of the CSV is modelled after tokenizing: a    *)
(* sequence of rows, each a sequence of numeric fields.                    *)
(***************************************************************************)
EXTENDS Integers, Sequences, FiniteSets, TLC

VARIABLES
    file,    \* the file 'multipliers.csv': [exists, rows]
    cache,   \* st.cache_data's store of load_multiplier_data: path -> table
    reads,   \* number of times pd.read_csv has been entered
    run,     \* what the latest run of main() put on the page
    prev,    \* the outcome of the run of main() before the latest
    calc     \* the latest direct call of calculate_roi: arguments and return

vars == <<file, cache, reads, run, prev, calc>>

----------------------------------------------------------------------------
(* Bounds of the model *)

MaxRows == 2
DayRadius == 1
MaxReads == 3

(* Program constants *)

DefaultDay == 113
BaselineReward == 396
TableWidth == 3

CsvPath == "multipliers.csv"

----------------------------------------------------------------------------
(* Exact rational arithmetic standing for Python float arithmetic *)

RECURSIVE Gcd(_, _)
Gcd(a, b) == IF b = 0 THEN a ELSE Gcd(b, a % b)

Abs(n) == IF n < 0 THEN -n ELSE n

NaN == <<0, 0>>

IsNaN(x) == x[2] = 0

Norm(n, d) ==
    LET s == IF d < 0 THEN -1 ELSE 1
        g == Gcd(Abs(n), Abs(d))
    IN  <<(s * n) \div g, (s * d) \div g>>

Num(n) == <<n, 1>>

Zero == Num(0)

One == Num(1)

\* x * y on floats: NaN is absorbing
Mul(x, y) ==
    IF IsNaN(x) \/ IsNaN(y) THEN NaN ELSE Norm(x[1] * y[1], x[2] * y[2])

\* x != 0 on floats: NaN != 0 is True
NotZero(x) == IsNaN(x) \/ x[1] # 0

\* x > y and x < y on floats: every comparison with NaN is False
Gt(x, y) == ~IsNaN(x) /\ ~IsNaN(y) /\ x[1] * y[2] > y[1] * x[2]

Lt(x, y) == ~IsNaN(x) /\ ~IsNaN(y) /\ x[1] * y[2] < y[1] * x[2]

\* x / y on floats: a zero divisor raises ZeroDivisionError
TrueDiv(x, y) ==
    IF ~NotZero(y) THEN [raised |-> "ZeroDivisionError", value |-> NaN]
    ELSE IF IsNaN(x) \/ IsNaN(y) THEN [raised |-> "none", value |-> NaN]
    ELSE [raised |-> "none", value |-> Norm(x[1] * y[2], x[2] * y[1])]

----------------------------------------------------------------------------
(* calculate_roi *)

\* Variant: the multiplier itself is the reward, without the baseline
calculate_roi_direct(token1_price, token2_price, day_multiplier) ==
    LET locking_value == Mul(day_multiplier, token2_price)
        quotient == IF NotZero(token1_price)
                    THEN TrueDiv(locking_value, token1_price)
                    ELSE [raised |-> "none", value |-> Zero]
    IN  [raised |-> quotient.raised,
         holding_value |-> token1_price,
         locking_value |-> locking_value,
         roi_ratio |-> quotient.value]

\* Variant: the baseline mistyped as 369
calculate_roi_typo(token1_price, token2_price, day_multiplier) ==
    LET locking_value == Mul(Mul(Num(369), day_multiplier), token2_price)
        quotient == IF NotZero(token1_price)
                    THEN TrueDiv(locking_value, token1_price)
                    ELSE [raised |-> "none", value |-> Zero]
    IN  [raised |-> quotient.raised,
         holding_value |-> token1_price,
         locking_value |-> locking_value,
         roi_ratio |-> quotient.value]

\* Variant: the division is not guarded
calculate_roi_unguarded(token1_price, token2_price, day_multiplier) ==
    LET locking_value ==
            Mul(Mul(Num(BaselineReward), day_multiplier), token2_price)
        quotient == TrueDiv(locking_value, token1_price)
    IN  [raised |-> quotient.raised,
         holding_value |-> token1_price,
         locking_value |-> locking_value,
         roi_ratio |-> quotient.value]

\* Variant: the reward is not multiplied by the price of token 2
calculate_roi_unpriced(token1_price, token2_price, day_multiplier) ==
    LET locking_value == Mul(Num(BaselineReward), day_multiplier)
        quotient == IF NotZero(token1_price)
                    THEN TrueDiv(locking_value, token1_price)
                    ELSE [raised |-> "none", value |-> Zero]
    IN  [raised |-> quotient.raised,
         holding_value |-> token1_price,
         locking_value |-> locking_value,
         roi_ratio |-> quotient.value]

calculate_roi(token1_price, token2_price, day_multiplier) ==
    LET holding_value == token1_price
        total_token2_reward == Mul(Num(BaselineReward), day_multiplier)
        locking_value == Mul(total_token2_reward, token2_price)
        quotient == IF NotZero(holding_value)
                    THEN TrueDiv(locking_value, holding_value)
                    ELSE [raised |-> "none", value |-> Zero]
    IN  [raised |-> quotient.raised,
         holding_value |-> holding_value,
         locking_value |-> locking_value,
         roi_ratio |-> quotient.value]

----------------------------------------------------------------------------
(* The source file and pd.read_csv(csv_path, header=None) *)

\* What pandas returns for 'multipliers.csv': FileNotFoundError for a missing
\* file, EmptyDataError for one without rows, ParserError for a row with more
\* fields than the first row; a row with fewer fields is padded with NaN.
read_csv(csv_path) ==
    LET rows == file.rows
        ncols == Len(rows[1])
    IN  IF csv_path # CsvPath \/ ~file.exists
        THEN [raised |-> "FileNotFoundError", ncols |-> 0, data |-> <<>>]
        ELSE IF rows = <<>>
        THEN [raised |-> "EmptyDataError", ncols |-> 0, data |-> <<>>]
        ELSE IF \E i \in 1..Len(rows) : Len(rows[i]) > ncols
        THEN [raised |-> "ParserError", ncols |-> 0, data |-> <<>>]
        ELSE [raised |-> "none",
              ncols |-> ncols,
              data |-> [i \in 1..Len(rows) |->
                          [j \in 1..ncols |->
                              IF j <= Len(rows[i]) THEN rows[i][j] ELSE NaN]]]

\* df.columns = ['day', 'int_col', 'multiplier']: a frame of another width
\* raises ValueError (length mismatch)
set_columns(frame) ==
    IF frame.ncols # TableWidth
    THEN [raised |-> "ValueError", df |-> <<>>]
    ELSE [raised |-> "none",
          df |-> [i \in 1..Len(frame.data) |->
                    [day |-> frame.data[i][1][1],
                     int_col |-> frame.data[i][2],
                     multiplier |-> frame.data[i][3]]]]

\* The body of load_multiplier_data
load_multiplier_data(csv_path) ==
    LET frame == read_csv(csv_path)
    IN  IF frame.raised # "none"
        THEN [raised |-> frame.raised, df |-> <<>>]
        ELSE set_columns(frame)

\* Variant: no cache lookup, the body runs on every call
uncached_load(csv_path) ==
    LET r == load_multiplier_data(csv_path)
    IN  [raised |-> r.raised, df |-> r.df,
         cache |-> IF r.raised = "none"
                   THEN [p \in DOMAIN cache \cup {csv_path} |->
                            IF p = csv_path THEN r.df ELSE cache[p]]
                   ELSE cache,
         reads |-> reads + 1]

\* @st.cache_data: a hit returns the stored table without running the body;
\* a miss runs the body and stores its return value; an exception stores
\* nothing.
cached_load(csv_path) ==
    IF csv_path \in DOMAIN cache
    THEN [raised |-> "none", df |-> cache[csv_path],
          cache |-> cache, reads |-> reads]
    ELSE LET r == load_multiplier_data(csv_path)
         IN  [raised |-> r.raised, df |-> r.df,
              cache |-> IF r.raised = "none"
                        THEN [p \in DOMAIN cache \cup {csv_path} |->
                                 IF p = csv_path THEN r.df ELSE cache[p]]
                        ELSE cache,
              reads |-> reads + 1]

----------------------------------------------------------------------------
(* main *)

MinOf(S) == CHOOSE x \in S : \A y \in S : x <= y

MaxOf(S) == CHOOSE x \in S : \A y \in S : x >= y

DayColumn(df) == {df[i].day : i \in 1..Len(df)}

\* st.slider("Days Locked Up", min_day, max_day, 113, step=1): the slider
\* widens its bounds to hold the default value
DaySliderValues(df) ==
    LET min_day == MinOf(DayColumn(df))
        max_day == MaxOf(DayColumn(df))
    IN  MinOf({min_day, DefaultDay})..MaxOf({max_day, DefaultDay})

\* Variant: the matching rows in reverse order
find_row_last(df, chosen_day) ==
    LET hits == SelectSeq(df, LAMBDA r : r.day = chosen_day)
    IN  [i \in 1..Len(hits) |-> hits[Len(hits) + 1 - i]]

\* Variant: the first row of the table when no row matches
find_row_fallback(df, chosen_day) ==
    LET hits == SelectSeq(df, LAMBDA r : r.day = chosen_day)
    IN  IF hits = <<>> THEN <<df[1]>> ELSE hits

\* row = df.loc[df['day'] == chosen_day]
find_row(df, chosen_day) ==
    SelectSeq(df, LAMBDA r : r.day = chosen_day)

\* The if / elif / else on roi_ratio
verdict(roi_ratio) ==
    IF Gt(roi_ratio, One) THEN "locking wins"
    ELSE IF Lt(roi_ratio, One) THEN "holding wins"
    ELSE "break-even"

\* main() from the row guard on: the error message and return, or the
\* computation, the text, the verdict and the chart
render(row, token1_price, token2_price, chosen_day) ==
    IF Len(row) = 0
    THEN [outcome |-> "not_found",
          error |-> "No matching row found",
          token1_price |-> token1_price,
          token2_price |-> token2_price,
          chosen_day |-> chosen_day]
    ELSE LET day_multiplier == row[1].multiplier
             r == calculate_roi(token1_price, token2_price, day_multiplier)
         IN  [outcome |-> "result",
              token1_price |-> token1_price,
              token2_price |-> token2_price,
              chosen_day |-> chosen_day,
              day_multiplier |-> day_multiplier,
              roi_args |-> <<token1_price, token2_price, day_multiplier>>,
              holding_value |-> r.holding_value,
              locking_value |-> r.locking_value,
              roi_ratio |-> r.roi_ratio,
              verdict |-> verdict(r.roi_ratio),
              chart |-> <<r.holding_value, r.locking_value>>]

\* Variant: a query after a failed lookup fails too
query_sticky(df, token1_price, token2_price, chosen_day) ==
    IF run.outcome = "not_found"
    THEN render(<<>>, token1_price, token2_price, chosen_day)
    ELSE render(find_row(df, chosen_day),
                token1_price, token2_price, chosen_day)

\* main() from the sliders on, with the table loaded
query(df, token1_price, token2_price, chosen_day) ==
    render(find_row(df, chosen_day), token1_price, token2_price, chosen_day)

----------------------------------------------------------------------------
(* Inputs *)

Days == (DefaultDay - DayRadius)..(DefaultDay + DayRadius)

Multipliers == {Norm(1, 10), Norm(1, 20)}

IntCol == Num(7)

\* Rows of two and three fields, and one row of four fields (whatever its
\* fields, a row longer than the table makes the load fail)
Rows ==
    {<<Num(d), IntCol>> : d \in Days}
    \cup {<<Num(d), IntCol, m>> : d \in Days, m \in Multipliers}
    \cup {<<Num(DefaultDay), IntCol, Norm(1, 10), IntCol>>}

Files ==
    {[exists |-> FALSE, rows |-> <<>>]}
    \cup {[exists |-> TRUE, rows |-> r] :
            r \in UNION {[1..n -> Rows] : n \in 0..MaxRows}}

\* st.slider("Token1 Price ($)", 0.5, 15.0, 2.94, step=0.1): the default and
\* a value of the grid, in cents
Token1Cents == {294, 990}

\* st.slider("Token2 Price ($)", 0.10, 1.5, 0.5, step=0.05): the default and
\* a value of the grid, in cents
Token2Cents == {25, 50}

Token1Values == {Norm(c, 100) : c \in Token1Cents}

Token2Values == {Norm(c, 100) : c \in Token2Cents}

\* Arguments of direct calls of calculate_roi: floats, NaN among them (main
\* passes the NaN of a missing multiplier field)
CalcPrices1 == {Zero, One, Norm(294, 100), Norm(990, 100), NaN}

CalcPrices2 == {Zero, Norm(1, 4), Norm(1, 2), Norm(3, 2), NaN}

CalcMultipliers == {Zero, Num(-1), Norm(1, 10), Norm(961, 100), NaN}

\* Tables of the direct-call specification: rows for the default day and
\* the day after it
ApiFiles ==
    {f \in Files :
        /\ f.exists
        /\ Len(f.rows) = 2
        /\ \A i \in 1..2 : Len(f.rows[i]) = TableWidth
        /\ f.rows[1][1] = Num(DefaultDay)
        /\ f.rows[2][1] = Num(DefaultDay + 1)}

NoRun == [outcome |-> "none"]

NoCall == [called |-> FALSE]

----------------------------------------------------------------------------
(* One run of the script: main() *)

\* A slider whose minimum equals its maximum is refused by some Streamlit
\* versions and accepted by others: both outcomes are kept.
main(token1_price, token2_price, chosen_day) ==
    LET ld == cached_load(CsvPath)
    IN  /\ reads < MaxReads \/ CsvPath \in DOMAIN cache
        /\ cache' = ld.cache
        /\ reads' = ld.reads
        /\ prev' = run.outcome
        /\ IF ld.raised # "none"
           THEN run' = [outcome |-> "load_error", error |-> ld.raised]
           ELSE /\ chosen_day \in DaySliderValues(ld.df)
                /\ run' \in
                     {query(ld.df, token1_price, token2_price, chosen_day)}
                     \cup (IF Cardinality(DaySliderValues(ld.df)) = 1
                           THEN {[outcome |-> "slider_error",
                                  error |-> "StreamlitAPIException"]}
                           ELSE {})
        /\ UNCHANGED <<file, calc>>

\* A direct call of calculate_roi
call_calculate_roi(token1_price, token2_price, day_multiplier) ==
    /\ calc' = [called |-> TRUE,
                args |-> <<token1_price, token2_price, day_multiplier>>,
                out |-> calculate_roi(token1_price, token2_price,
                                      day_multiplier)]
    /\ UNCHANGED <<file, cache, reads, run, prev>>

Init ==
    /\ file \in Files
    /\ cache = <<>>
    /\ reads = 0
    /\ run = NoRun
    /\ prev = "none"
    /\ calc = NoCall

RunMain ==
    \E t1 \in Token1Values, t2 \in Token2Values, d \in Days :
        main(t1, t2, d)

CallCalculateRoi ==
    \E p1 \in CalcPrices1, p2 \in CalcPrices2, m \in CalcMultipliers :
        call_calculate_roi(p1, p2, m)

Next == RunMain

Spec == Init /\ [][Next]_vars

\* The page and direct calls of calculate_roi, on the tables of ApiFiles
InitApi == Init /\ file \in ApiFiles

NextApi == RunMain \/ CallCalculateRoi

SpecApi == InitApi /\ [][NextApi]_vars

----------------------------------------------------------------------------
(* Vocabulary of the properties *)

Loaded == CsvPath \in DOMAIN cache

Table == cache[CsvPath]

Queried == run.outcome \in {"result", "not_found"}

HasRow(df, d) == \E i \in 1..Len(df) : df[i].day = d

FirstIndex(df, d) ==
    CHOOSE i \in 1..Len(df) :
        df[i].day = d /\ \A j \in 1..(i - 1) : df[j].day # d

ResultFields ==
    {"day_multiplier", "roi_args", "holding_value", "locking_value",
     "roi_ratio", "verdict", "chart"}

\* x = n / d, by cross-multiplication
IsRatio(x, n, d) == ~IsNaN(x) /\ d # 0 /\ x[1] * d = n * x[2]

\* x = k * m * b as floats: NaN when m or b is NaN
IsProduct(x, k, m, b) ==
    IF IsNaN(m) \/ IsNaN(b) THEN IsNaN(x)
    ELSE IsRatio(x, k * m[1] * b[1], m[2] * b[2])

\* x = l / a as floats, a not 0: NaN when l or a is NaN
IsQuotient(x, l, a) ==
    IF IsNaN(l) \/ IsNaN(a) THEN IsNaN(x)
    ELSE IsRatio(x, l[1] * a[2], l[2] * a[1])

\* x == y on floats: NaN equals nothing
Eq(x, y) == ~IsNaN(x) /\ ~IsNaN(y) /\ x = y

\* The source is not a table: no rows, or rows of different lengths
Malformed(f) ==
    /\ f.exists
    /\ \/ f.rows = <<>>
       \/ \E i, j \in 1..Len(f.rows) : Len(f.rows[i]) # Len(f.rows[j])

FewerColumns(f) ==
    /\ f.exists
    /\ f.rows # <<>>
    /\ \A i \in 1..Len(f.rows) : Len(f.rows[i]) < TableWidth

WellFormed(f) ==
    /\ f.exists
    /\ f.rows # <<>>
    /\ \A i \in 1..Len(f.rows) : Len(f.rows[i]) = TableWidth

----------------------------------------------------------------------------
(* C1: when the table has a row for the chosen day, the run produces a     *)
(* result and the multiplier passed to calculate_roi is the multiplier of  *)
(* the first row, in table order, whose day equals the chosen day.         *)
C1_FirstMatchingRow ==
    (Queried /\ HasRow(Table, run.chosen_day)) =>
        /\ run.outcome = "result"
        /\ run.roi_args[3] = Table[FirstIndex(Table, run.chosen_day)].multiplier
        /\ Table[FirstIndex(Table, run.chosen_day)].day = run.chosen_day

\* A result for a day that two rows with different multipliers carry
C1_Witness ==
    /\ run.outcome = "result"
    /\ \E i, j \in 1..Len(Table) :
          /\ i < j
          /\ Table[i].day = run.chosen_day
          /\ Table[j].day = run.chosen_day
          /\ Table[i].multiplier # Table[j].multiplier

(* C2: when no row of the table has the chosen day, the run ends in the    *)
(* row-not-found outcome: an error is reported, calculate_roi is not       *)
(* called, and no multiplier, value, ratio, verdict or chart is produced.  *)
C2_MissIsNotFound ==
    (Queried /\ ~HasRow(Table, run.chosen_day)) =>
        /\ run.outcome = "not_found"
        /\ run.error = "No matching row found"
        /\ DOMAIN run \cap ResultFields = {}

\* A miss on a day between two days of the table
C2_Witness ==
    /\ run.outcome = "not_found"
    /\ \E i, j \in 1..Len(Table) :
          Table[i].day < run.chosen_day /\ run.chosen_day < Table[j].day

(* C3: a run that follows a row-not-found run leaves the cached table as   *)
(* it was, reaches the lookup, and, when its day has a row, produces the   *)
(* full result computed from the first matching row's multiplier.          *)
C3_MissAbortsOneQuery ==
    [][run.outcome = "not_found" =>
        /\ cache' = cache
        /\ run'.outcome \in {"result", "not_found"}
        /\ HasRow(Table, run'.chosen_day) =>
            LET m == Table[FirstIndex(Table, run'.chosen_day)].multiplier
                r == calculate_roi(run'.token1_price, run'.token2_price, m)
            IN  /\ run'.outcome = "result"
                /\ run'.holding_value = r.holding_value
                /\ run'.locking_value = r.locking_value
                /\ run'.roi_ratio = r.roi_ratio
                /\ run'.verdict \in {"locking wins", "holding wins",
                                     "break-even"}]_vars

\* A result right after a row-not-found run
C3_Witness == prev = "not_found" /\ run.outcome = "result"

C5_Baseline396 ==
    /\ calc.called =>
        LET a == calc.args[1]
            b == calc.args[2]
            m == calc.args[3]
            o == calc.out
        IN  /\ o.holding_value = a
            /\ IsProduct(o.locking_value, 396, m, b)
            /\ a # Zero => IsQuotient(o.roi_ratio, o.locking_value, a)
    /\ run.outcome = "result" =>
        /\ run.holding_value = run.token1_price
        /\ IsProduct(run.locking_value, 396, run.day_multiplier,
                     run.token2_price)
        /\ run.chart[2] = run.locking_value

\* A direct call with a price of token 1 other than 0, and a result on the page
C5_Witness ==
    /\ calc.called
    /\ calc.args[1] # Zero
    /\ calc.out.locking_value # Zero
    /\ run.outcome = "result"

(* C6: calculate_roi(0, price_b, multiplier) returns roi_ratio = 0,        *)
(* whatever the locking value, and no call of calculate_roi raises.        *)
C6_ZeroGuard ==
    calc.called =>
        /\ calc.out.raised = "none"
        /\ calc.args[1] = Zero => calc.out.roi_ratio = Zero

\* A call with price_a = 0 and a locking value other than 0
C6_Witness ==
    /\ calc.called
    /\ calc.args[1] = Zero
    /\ calc.out.locking_value # Zero

(* C7 as stated: calculate_roi(p, 0, m) returns locking_value = 0 and     *)
(* roi_ratio = 0 for every p and every m, also when p is 0.                *)
C7_ZeroPriceB ==
    (calc.called /\ calc.args[2] = Zero) =>
        /\ calc.out.locking_value = Zero
        /\ calc.out.roi_ratio = Zero

(* C7, amended: calculate_roi(p, 0, m) returns locking_value = 0 for every *)
(* m that is not NaN, and roi_ratio = 0 for every such m and every p that  *)
(* is not NaN, also when p is 0; when m is NaN the locking value is NaN,   *)
(* and roi_ratio is 0 only by the zero guard (p = 0) and NaN otherwise.    *)
C7_ZeroPriceBNumbers ==
    (calc.called /\ calc.args[2] = Zero) =>
        LET p == calc.args[1]
            m == calc.args[3]
        IN  /\ ~IsNaN(m) => calc.out.locking_value = Zero
            /\ (~IsNaN(m) /\ ~IsNaN(p)) => calc.out.roi_ratio = Zero
            /\ IsNaN(m) =>
                 /\ IsNaN(calc.out.locking_value)
                 /\ IF p = Zero THEN calc.out.roi_ratio = Zero
                    ELSE IsNaN(calc.out.roi_ratio)

\* A call with price_b = 0, and price_a and the multiplier numbers other than 0
C7_Witness ==
    /\ calc.called
    /\ calc.args[2] = Zero
    /\ ~IsNaN(calc.args[1]) /\ calc.args[1] # Zero
    /\ ~IsNaN(calc.args[3]) /\ calc.args[3] # Zero
    /\ calc.out.locking_value = Zero

(* C8: every result shows exactly one verdict: "locking wins" if and only  *)
(* if roi_ratio > 1, "holding wins" if and only if roi_ratio < 1, and      *)
(* "break-even" if and only if roi_ratio = 1.                              *)
C8_Verdict ==
    run.outcome = "result" =>
        /\ (run.verdict = "locking wins") <=> Gt(run.roi_ratio, One)
        /\ (run.verdict = "holding wins") <=> Lt(run.roi_ratio, One)
        /\ (run.verdict = "break-even") <=> (run.roi_ratio = One)

(* C9 as stated: the source is read at most once, and a populated cache is *)
(* never modified.                                                         *)
C9_ReadAtMostOnce ==
    [][reads' <= 1 /\ (Loaded => cache' = cache)]_vars

(* C9, amended: once a load has succeeded the source is never read again   *)
(* and the cached table is never modified; a load that fails caches        *)
(* nothing, and the next load reads the source again.                      *)
C9_ReadOnceLoaded ==
    [][/\ Loaded => (cache' = cache /\ reads' = reads)
       /\ (~Loaded /\ run'.outcome = "load_error") =>
            (cache' = cache /\ reads' = reads + 1)]_vars

\* A third run on a table that was read once
C9_Witness ==
    /\ Loaded
    /\ reads = 1
    /\ prev \in {"result", "not_found"}
    /\ run.outcome = "result"

(* C10: a run on a source that is missing, malformed or of fewer than 3    *)
(* columns ends in the load error, with nothing cached and no query        *)
(* processed; a well-formed source of 3 columns is loaded and cached with  *)
(* the columns day, int_col, multiplier.                                   *)
C10_LoadFailure ==
    run.outcome # "none" =>
        /\ (~file.exists \/ Malformed(file) \/ FewerColumns(file)) =>
              (run.outcome = "load_error" /\ ~Loaded)
        /\ WellFormed(file) =>
              /\ Loaded
              /\ run.outcome # "load_error"
              /\ \A i \in 1..Len(Table) :
                    DOMAIN Table[i] = {"day", "int_col", "multiplier"}

====
